---------------------------- MODULE Spec2Model ----------------------------
(***************************************************************************)
(* Matrix2 (Source/Core/Matrix2.js): a 2x2 matrix kept in a 4-element      *)
(* array, with static operations that either allocate their result or      *)
(* write it into a caller-supplied `result` object.                        *)
(*                                                                         *)
(* The state is the JavaScript heap the module works on: arrays, Matrix2   *)
(* objects (each holding a reference to its `values` array) and Cartesian2 *)
(* objects, plus the calls made so far with their completion values.       *)
(* References are positive integers; 0 stands for `undefined`.             *)
(***************************************************************************)
EXTENDS Integers, Sequences, FiniteSets, TLC

VARIABLES heap, pre, trace

vars == <<heap, pre, trace>>

---------------------------------------------------------------------------
(* Bounds of the exploration.                                              *)

\* Matrix components, vector coordinates and scalars are drawn from 0..MaxVal
\* (scalars also from -1).
MaxVal == 1

\* Arrays handed to the constructor have 0..MaxLen elements.
MaxLen == 5

Val == 0 .. MaxVal

---------------------------------------------------------------------------
(* JavaScript values.  A number is an integer n, or n + 0.5 when `half`    *)
(* is set (only index arguments are ever fractional).                      *)

Num(n) == [k |-> "number", n |-> n, half |-> FALSE]

Half == [k |-> "number", n |-> 0, half |-> TRUE]

NaN == [k |-> "NaN", n |-> 0, half |-> FALSE]

Undefined == [k |-> "undefined", n |-> 0, half |-> FALSE]

Str == [k |-> "string", n |-> 0, half |-> FALSE]

\* Marks a non-index property that an array does not have.
Absent == [k |-> "absent", n |-> 0, half |-> FALSE]

\* typeof v
TypeOf(v) == IF v.k \in {"number", "NaN"} THEN "number" ELSE v.k

\* v < 0 and v > 1; every comparison with NaN is false.
LessThan0(v) == v.k = "number" /\ v.n < 0

GreaterThan1(v) == v.k = "number" /\ (v.n > 1 \/ (v.n = 1 /\ v.half))

\* a * b, a + b, -a on components (integers, undefined or NaN): anything
\* that is not a number makes the result NaN.
Mul(a, b) == IF a.k = "number" /\ b.k = "number" THEN Num(a.n * b.n) ELSE NaN

Add(a, b) == IF a.k = "number" /\ b.k = "number" THEN Num(a.n + b.n) ELSE NaN

Neg(a) == IF a.k = "number" THEN Num(0 - a.n) ELSE NaN

\* index * 2 and index + d for an index argument (d a whole number).
Times2(v) ==
    IF v.k = "number" THEN Num(2 * v.n + (IF v.half THEN 1 ELSE 0)) ELSE NaN

Plus(v, d) == IF v.k = "number" THEN [v EXCEPT !.n = @ + d] ELSE NaN

\* a === b
StrictEq(a, b) == a.k # "NaN" /\ b.k # "NaN" /\ a = b

---------------------------------------------------------------------------
(* Arrays: the indexed elements and the non-index properties a write with  *)
(* a fractional or NaN key creates.                                        *)

PropKeys == {"0.5", "2.5", "NaN"}

NoProps == [p \in PropKeys |-> Absent]

NewArray(elems) == [elems |-> elems, props |-> NoProps]

IsArrayIndex(key) == key.k = "number" /\ ~key.half /\ key.n >= 0

\* The property name of a key that is not an array index.
PropName(key) ==
    IF key.k # "number" THEN "NaN" ELSE IF key.n = 0 THEN "0.5" ELSE "2.5"

\* array[key]
Get(a, key) ==
    IF IsArrayIndex(key)
    THEN IF key.n < Len(a.elems) THEN a.elems[key.n + 1] ELSE Undefined
    ELSE IF a.props[PropName(key)] = Absent
         THEN Undefined
         ELSE a.props[PropName(key)]

\* array[key] = v; writing past the end lengthens the array.
Put(a, key, v) ==
    IF IsArrayIndex(key)
    THEN LET old == a.elems
             n == IF key.n + 1 > Len(old) THEN key.n + 1 ELSE Len(old)
         IN [a EXCEPT !.elems =
                [i \in 1 .. n |-> IF i = key.n + 1 THEN v
                                  ELSE IF i <= Len(old) THEN old[i]
                                  ELSE Undefined]]
    ELSE [a EXCEPT !.props[PropName(key)] = v]

---------------------------------------------------------------------------
(* The heap.                                                               *)

EmptyHeap == [arrays |-> <<>>, mats |-> <<>>, carts |-> <<>>]

\* h.arrays[a][i] for a whole index i
Read(h, a, i) == Get(h.arrays[a], Num(i))

ReadKey(h, a, key) == Get(h.arrays[a], key)

Write(h, a, i, v) == [h EXCEPT !.arrays[a] = Put(@, Num(i), v)]

WriteKey(h, a, key, v) == [h EXCEPT !.arrays[a] = Put(@, key, v)]

\* An array literal [e0, e1, ...]: a new array, referenced by Len(arrays).
AllocArray(h, elems) == [h EXCEPT !.arrays = Append(@, NewArray(elems))]

\* Completion of a call: the heap it leaves, the reference (or boolean) it
\* returns, and whether it threw instead.
Return(h, ref) == [h |-> h, ret |-> ref, bool |-> FALSE, threw |-> FALSE]

ReturnBool(h, b) == [h |-> h, ret |-> 0, bool |-> b, threw |-> FALSE]

Throw(h) == [h |-> h, ret |-> 0, bool |-> FALSE, threw |-> TRUE]

\* The arguments that stand for a value that is not an array (values) and
\* are not references.
NotAnArray == 0 - 1

---------------------------------------------------------------------------
(* Cartesian2 (a collaborator outside this file): new Cartesian2(x, y).    *)

ReturnNewCart(h) == Return(h, Len(h.carts))

Cartesian2(h, x, y) ==
    ReturnNewCart([h EXCEPT !.carts = Append(@, [x |-> x, y |-> y])])

\* result.x = x; result.y = y; return result;
SetCoords(h, result, x, y) ==
    Return([h EXCEPT !.carts[result].x = x, !.carts[result].y = y], result)

---------------------------------------------------------------------------
(* Construction and factories.                                             *)

ReturnNewMatrix(h) == Return(h, Len(h.mats))

\* this.values = values, for the new object.
Wrap(h, values) ==
    ReturnNewMatrix([h EXCEPT !.mats =
                        Append(@, [values |-> values, frozen |-> FALSE])])

WrapLatest(h) == Wrap(h, Len(h.arrays))

\* new Matrix2(values): values is undefined (0), not an array, or an array.
Matrix2(h, values) ==
    IF values = 0
    THEN WrapLatest(AllocArray(h, <<Num(0), Num(0), Num(0), Num(0)>>))
    ELSE IF values = NotAnArray
    THEN Throw(h)
    ELSE Wrap(h, values)

\* new Matrix2([v0, v1, v2, v3])
NewMatrix4(h, v0, v1, v2, v3) ==
    WrapLatest(AllocArray(h, <<v0, v1, v2, v3>>))

\* a[0] = v0; a[1] = v1; a[2] = v2; a[3] = v3, the values computed beforehand.
Write4(h, a, v0, v1, v2, v3) ==
    Write(Write(Write(Write(h, a, 0, v0), a, 1, v1), a, 2, v2), a, 3, v3)

\* dst[i] = src[j], src[j] read when the statement runs.
CopySlot(h, dst, i, src, j) == Write(h, dst, i, Read(h, src, j))

\* A faulty fromComponents: the in-place form stores the two middle
\* components in the other order.
fromComponentsSwapped(h, column0Row0, column1Row0, column0Row1, column1Row1, result) ==
    IF result = 0
    THEN NewMatrix4(h, column0Row0, column1Row0, column0Row1, column1Row1)
    ELSE Return(Write4(h, h.mats[result].values,
                       column0Row0, column0Row1, column1Row0, column1Row1),
                result)

fromComponents(h, column0Row0, column1Row0, column0Row1, column1Row1, result) ==
    IF result = 0
    THEN NewMatrix4(h, column0Row0, column1Row0, column0Row1, column1Row1)
    ELSE Return(Write4(h, h.mats[result].values,
                       column0Row0, column1Row0, column0Row1, column1Row1),
                result)

\* A faulty fromRowMajorArray: it also rejects an array whose length is
\* not 4.
fromRowMajorArrayLengthChecked(h, values, result) ==
    IF values = 0 \/ values = NotAnArray
    THEN Throw(h)
    ELSE IF Len(h.arrays[values].elems) # 4
    THEN Throw(h)
    ELSE IF result = 0
    THEN NewMatrix4(h, Read(h, values, 0), Read(h, values, 2),
                       Read(h, values, 1), Read(h, values, 3))
    ELSE LET resultValues == h.mats[result].values
         IN Return(CopySlot(CopySlot(CopySlot(CopySlot(h,
                       resultValues, 0, values, 0),
                       resultValues, 1, values, 2),
                       resultValues, 2, values, 1),
                       resultValues, 3, values, 3), result)

\* The in-place form reads values[i] as it goes, after the earlier writes.
fromRowMajorArray(h, values, result) ==
    IF values = 0 \/ values = NotAnArray
    THEN Throw(h)
    ELSE IF result = 0
    THEN NewMatrix4(h, Read(h, values, 0), Read(h, values, 2),
                       Read(h, values, 1), Read(h, values, 3))
    ELSE LET resultValues == h.mats[result].values
         IN Return(CopySlot(CopySlot(CopySlot(CopySlot(h,
                       resultValues, 0, values, 0),
                       resultValues, 1, values, 2),
                       resultValues, 2, values, 1),
                       resultValues, 3, values, 3), result)

\* A faulty clone: the allocating form wraps the array of its input
\* instead of a copy.
cloneSharing(h, matrix, result) ==
    IF matrix = 0
    THEN Throw(h)
    ELSE IF result = 0
    THEN Wrap(h, h.mats[matrix].values)
    ELSE LET values == h.mats[matrix].values
             resultValues == h.mats[result].values
         IN Return(CopySlot(CopySlot(CopySlot(CopySlot(h,
                       resultValues, 0, values, 0),
                       resultValues, 1, values, 1),
                       resultValues, 2, values, 2),
                       resultValues, 3, values, 3), result)

\* A faulty clone: the in-place form writes one slot too far.
cloneOffByOne(h, matrix, result) ==
    IF matrix = 0
    THEN Throw(h)
    ELSE IF result = 0
    THEN WrapLatest(AllocArray(h, h.arrays[h.mats[matrix].values].elems))
    ELSE LET values == h.mats[matrix].values
             resultValues == h.mats[result].values
         IN Return(CopySlot(CopySlot(CopySlot(CopySlot(h,
                       resultValues, 1, values, 0),
                       resultValues, 2, values, 1),
                       resultValues, 3, values, 2),
                       resultValues, 4, values, 3), result)

\* matrix.values.slice(0) copies the indexed elements only.
clone(h, matrix, result) ==
    IF matrix = 0
    THEN Throw(h)
    ELSE IF result = 0
    THEN WrapLatest(AllocArray(h, h.arrays[h.mats[matrix].values].elems))
    ELSE LET values == h.mats[matrix].values
             resultValues == h.mats[result].values
         IN Return(CopySlot(CopySlot(CopySlot(CopySlot(h,
                       resultValues, 0, values, 0),
                       resultValues, 1, values, 1),
                       resultValues, 2, values, 2),
                       resultValues, 3, values, 3), result)

---------------------------------------------------------------------------
(* Row and column access.                                                  *)

\* typeof index !== 'number' || index < 0 || index > 1
BadIndex(index) ==
    TypeOf(index) # "number" \/ LessThan0(index) \/ GreaterThan1(index)

\* x and y read at the two keys, then returned in a new Cartesian2 or
\* stored into result.
ReadPair(h, values, key1, key2, result) ==
    IF result = 0
    THEN Cartesian2(h, ReadKey(h, values, key1), ReadKey(h, values, key2))
    ELSE SetCoords(h, result, ReadKey(h, values, key1), ReadKey(h, values, key2))

\* matrix.values[key] = cartesian.x (or .y)
StoreCoord(h, matrix, key, cartesian, coord) ==
    WriteKey(h, h.mats[matrix].values, key, h.carts[cartesian][coord])

\* On the matrix that clone returned: values[key1] = cartesian.x;
\* values[key2] = cartesian.y; return it.
StorePair(c, key1, key2, cartesian) ==
    Return(StoreCoord(StoreCoord(c.h, c.ret, key1, cartesian, "x"),
                      c.ret, key2, cartesian, "y"), c.ret)

\* A faulty getColumn: it strides like getRow.
getColumnStrided(h, matrix, index, result) ==
    IF matrix = 0
    THEN Throw(h)
    ELSE IF BadIndex(index)
    THEN Throw(h)
    ELSE ReadPair(h, h.mats[matrix].values,
                  Times2(index), Plus(Times2(index), 1), result)

\* startIndex = index
getColumn(h, matrix, index, result) ==
    IF matrix = 0
    THEN Throw(h)
    ELSE IF BadIndex(index)
    THEN Throw(h)
    ELSE ReadPair(h, h.mats[matrix].values, index, Plus(index, 2), result)

setColumn(h, matrix, index, cartesian, result) ==
    IF matrix = 0
    THEN Throw(h)
    ELSE IF cartesian = 0
    THEN Throw(h)
    ELSE IF BadIndex(index)
    THEN Throw(h)
    ELSE StorePair(clone(h, matrix, result), index, Plus(index, 2), cartesian)

\* A faulty getRow: it reads values[index] and values[index + 2].
getRowAsColumn(h, matrix, index, result) == getColumn(h, matrix, index, result)

\* startIndex = index * 2
getRow(h, matrix, index, result) ==
    IF matrix = 0
    THEN Throw(h)
    ELSE IF BadIndex(index)
    THEN Throw(h)
    ELSE ReadPair(h, h.mats[matrix].values,
                  Times2(index), Plus(Times2(index), 1), result)

setRow(h, matrix, index, cartesian, result) ==
    IF matrix = 0
    THEN Throw(h)
    ELSE IF cartesian = 0
    THEN Throw(h)
    ELSE IF BadIndex(index)
    THEN Throw(h)
    ELSE StorePair(clone(h, matrix, result),
                   Times2(index), Plus(Times2(index), 1), cartesian)

---------------------------------------------------------------------------
(* Arithmetic.                                                             *)

\* a[i] * b[j] + a[k] * b[l]
Dot(h, a, i, b, j, k, l) ==
    Add(Mul(Read(h, a, i), Read(h, b, j)), Mul(Read(h, a, k), Read(h, b, l)))

\* The four values, all computed before any write, go to a new matrix or
\* into result.values.
Store4(h, result, v0, v1, v2, v3) ==
    IF result = 0
    THEN NewMatrix4(h, v0, v1, v2, v3)
    ELSE Return(Write4(h, h.mats[result].values, v0, v1, v2, v3), result)

\* A faulty multiply: the operands are taken in the other order.
multiplyReversed(h, left, right, result) ==
    IF left = 0
    THEN Throw(h)
    ELSE IF right = 0
    THEN Throw(h)
    ELSE LET leftValues == h.mats[right].values
             rightValues == h.mats[left].values
         IN Store4(h, result,
                   Dot(h, leftValues, 0, rightValues, 0, 1, 2),
                   Dot(h, leftValues, 0, rightValues, 1, 1, 3),
                   Dot(h, leftValues, 2, rightValues, 0, 3, 2),
                   Dot(h, leftValues, 2, rightValues, 1, 3, 3))

multiply(h, left, right, result) ==
    IF left = 0
    THEN Throw(h)
    ELSE IF right = 0
    THEN Throw(h)
    ELSE LET leftValues == h.mats[left].values
             rightValues == h.mats[right].values
         IN Store4(h, result,
                   Dot(h, leftValues, 0, rightValues, 0, 1, 2),
                   Dot(h, leftValues, 0, rightValues, 1, 1, 3),
                   Dot(h, leftValues, 2, rightValues, 0, 3, 2),
                   Dot(h, leftValues, 2, rightValues, 1, 3, 3))

\* m[i] * cartesian.x + m[j] * cartesian.y
DotVector(h, m, i, j, cartesian) ==
    Add(Mul(Read(h, m, i), h.carts[cartesian].x),
        Mul(Read(h, m, j), h.carts[cartesian].y))

\* x and y, both computed before any write, go to a new Cartesian2 or
\* into result.
StoreVector(h, result, x, y) ==
    IF result = 0 THEN Cartesian2(h, x, y) ELSE SetCoords(h, result, x, y)

multiplyByVector(h, matrix, cartesian, result) ==
    IF matrix = 0
    THEN Throw(h)
    ELSE IF cartesian = 0
    THEN Throw(h)
    ELSE StoreVector(h, result,
                     DotVector(h, h.mats[matrix].values, 0, 1, cartesian),
                     DotVector(h, h.mats[matrix].values, 2, 3, cartesian))

\* dst[i] = src[i] * scalar, src[i] read when the statement runs.
ScaleSlot(h, dst, i, src, scalar) ==
    Write(h, dst, i, Mul(Read(h, src, i), scalar))

multiplyByScalar(h, matrix, scalar, result) ==
    IF matrix = 0
    THEN Throw(h)
    ELSE IF TypeOf(scalar) # "number"
    THEN Throw(h)
    ELSE LET matrixValues == h.mats[matrix].values
         IN IF result = 0
            THEN NewMatrix4(h, Mul(Read(h, matrixValues, 0), scalar),
                               Mul(Read(h, matrixValues, 1), scalar),
                               Mul(Read(h, matrixValues, 2), scalar),
                               Mul(Read(h, matrixValues, 3), scalar))
            ELSE LET resultValues == h.mats[result].values
                 IN Return(ScaleSlot(ScaleSlot(ScaleSlot(ScaleSlot(h,
                               resultValues, 0, matrixValues, scalar),
                               resultValues, 1, matrixValues, scalar),
                               resultValues, 2, matrixValues, scalar),
                               resultValues, 3, matrixValues, scalar), result)

\* dst[i] = -src[i], src[i] read when the statement runs.
NegateSlot(h, dst, i, src) == Write(h, dst, i, Neg(Read(h, src, i)))

negate(h, matrix, result) ==
    IF matrix = 0
    THEN Throw(h)
    ELSE LET matrixValues == h.mats[matrix].values
         IN IF result = 0
            THEN NewMatrix4(h, Neg(Read(h, matrixValues, 0)),
                               Neg(Read(h, matrixValues, 1)),
                               Neg(Read(h, matrixValues, 2)),
                               Neg(Read(h, matrixValues, 3)))
            ELSE LET resultValues == h.mats[result].values
                 IN Return(NegateSlot(NegateSlot(NegateSlot(NegateSlot(h,
                               resultValues, 0, matrixValues),
                               resultValues, 1, matrixValues),
                               resultValues, 2, matrixValues),
                               resultValues, 3, matrixValues), result)

\* A faulty transpose: values[1] is never copied to slot 2.
transposeHalf(h, matrix, result) ==
    IF matrix = 0
    THEN Throw(h)
    ELSE LET matrixValues == h.mats[matrix].values
         IN Store4(h, result,
                   Read(h, matrixValues, 0), Read(h, matrixValues, 2),
                   Read(h, matrixValues, 2), Read(h, matrixValues, 3))

\* A faulty transpose: the in-place form reads each component when it
\* writes it, without caching the inputs first.
transposeUncached(h, matrix, result) ==
    IF matrix = 0
    THEN Throw(h)
    ELSE LET matrixValues == h.mats[matrix].values
         IN IF result = 0
            THEN NewMatrix4(h, Read(h, matrixValues, 0), Read(h, matrixValues, 2),
                               Read(h, matrixValues, 1), Read(h, matrixValues, 3))
            ELSE LET resultValues == h.mats[result].values
                 IN Return(CopySlot(CopySlot(CopySlot(CopySlot(h,
                               resultValues, 0, matrixValues, 0),
                               resultValues, 1, matrixValues, 2),
                               resultValues, 2, matrixValues, 1),
                               resultValues, 3, matrixValues, 3), result)

transpose(h, matrix, result) ==
    IF matrix = 0
    THEN Throw(h)
    ELSE LET matrixValues == h.mats[matrix].values
         IN Store4(h, result,
                   Read(h, matrixValues, 0), Read(h, matrixValues, 2),
                   Read(h, matrixValues, 1), Read(h, matrixValues, 3))

---------------------------------------------------------------------------
(* Comparison.                                                             *)

\* a[i] === b[i]
SameSlot(h, a, b, i) == StrictEq(Read(h, a, i), Read(h, b, i))

\* A faulty equals: the last component is not compared.
equalsFirstThree(h, left, right) ==
    IF left = right
    THEN ReturnBool(h, TRUE)
    ELSE IF left = 0 \/ right = 0
    THEN ReturnBool(h, FALSE)
    ELSE LET leftValues == h.mats[left].values
             rightValues == h.mats[right].values
         IN ReturnBool(h,
                /\ SameSlot(h, leftValues, rightValues, 0)
                /\ SameSlot(h, leftValues, rightValues, 1)
                /\ SameSlot(h, leftValues, rightValues, 2))

equals(h, left, right) ==
    IF left = right
    THEN ReturnBool(h, TRUE)
    ELSE IF left = 0 \/ right = 0
    THEN ReturnBool(h, FALSE)
    ELSE LET leftValues == h.mats[left].values
             rightValues == h.mats[right].values
         IN ReturnBool(h,
                /\ SameSlot(h, leftValues, rightValues, 0)
                /\ SameSlot(h, leftValues, rightValues, 1)
                /\ SameSlot(h, leftValues, rightValues, 2)
                /\ SameSlot(h, leftValues, rightValues, 3))

---------------------------------------------------------------------------
(* Calls.  A call names the operation and its arguments; the arguments an  *)
(* operation does not take stay at their defaults.                         *)

NoArgs ==
    [op |-> "none", matrix |-> 0, right |-> 0, cartesian |-> 0, values |-> 0,
     index |-> Undefined, scalar |-> Undefined, comps |-> <<>>, result |-> 0]

Invoke(h, c) ==
    CASE c.op = "Matrix2" -> Matrix2(h, c.values)
      [] c.op = "fromComponents" ->
            fromComponents(h, c.comps[1], c.comps[2], c.comps[3], c.comps[4],
                           c.result)
      [] c.op = "fromRowMajorArray" -> fromRowMajorArray(h, c.values, c.result)
      [] c.op = "clone" -> clone(h, c.matrix, c.result)
      [] c.op = "getColumn" -> getColumn(h, c.matrix, c.index, c.result)
      [] c.op = "setColumn" ->
            setColumn(h, c.matrix, c.index, c.cartesian, c.result)
      [] c.op = "getRow" -> getRow(h, c.matrix, c.index, c.result)
      [] c.op = "setRow" -> setRow(h, c.matrix, c.index, c.cartesian, c.result)
      [] c.op = "multiply" -> multiply(h, c.matrix, c.right, c.result)
      [] c.op = "multiplyByVector" ->
            multiplyByVector(h, c.matrix, c.cartesian, c.result)
      [] c.op = "multiplyByScalar" ->
            multiplyByScalar(h, c.matrix, c.scalar, c.result)
      [] c.op = "negate" -> negate(h, c.matrix, c.result)
      [] c.op = "transpose" -> transpose(h, c.matrix, c.result)
      [] c.op = "equals" -> equals(h, c.matrix, c.right)

\* The heap becomes what the call left, and the call is recorded with its
\* completion.
Commit(r, c) ==
    /\ pre' = heap
    /\ heap' = r.h
    /\ trace' = Append(trace, [c |-> c, ret |-> r.ret, bool |-> r.bool,
                               threw |-> r.threw])

\* The caller makes call c.
Step(c) == Commit(Invoke(heap, c), c)

---------------------------------------------------------------------------
(* The state a caller starts from.                                         *)

\* Matrix2.IDENTITY = Object.freeze(Matrix2.fromComponents(1.0, 0.0, 0.0, 1.0)):
\* the freeze covers the Matrix2 object's own fields, not the array that
\* `values` refers to.
Freeze(r) == [r.h EXCEPT !.mats[r.ret].frozen = TRUE]

IdentityHeap ==
    Freeze(fromComponents(EmptyHeap, Num(1), Num(0), Num(0), Num(1), 0))

IDENTITY == Len(IdentityHeap.mats)

\* The caller's own objects: m = new Matrix2(elems), s = new Matrix2(),
\* c = new Cartesian2(x, y), d = new Cartesian2(0, 0).
UserMatrix == IDENTITY + 1

Scratch == IDENTITY + 2

UserVector == Len(IdentityHeap.carts) + 1

ScratchVector == UserVector + 1

\* new Matrix2(elems), the array literal allocated first.
MatrixOver(h, elems) == WrapLatest(AllocArray(h, elems))

\* Two vectors: new Cartesian2(x, y) and new Cartesian2(0, 0).
WithVectors(h, x, y) == Cartesian2(Cartesian2(h, x, y).h, Num(0), Num(0)).h

Setup(elems, x, y) ==
    WithVectors(Matrix2(MatrixOver(IdentityHeap, elems).h, 0).h, x, y)

\* As Setup, with s = new Matrix2(other) as a second matrix of the caller.
SetupPair(elems, other, x, y) ==
    WithVectors(MatrixOver(MatrixOver(IdentityHeap, elems).h, other).h, x, y)

Tuples4 == {<<Num(a), Num(b), Num(c), Num(d)>> : a \in Val, b \in Val, c \in Val, d \in Val}

\* What a caller may hand to the constructor: any four components, and
\* arrays of every other length up to MaxLen.
ArrayLiterals == Tuples4 \cup {[i \in 1 .. n |-> Num(MaxVal)] : n \in 0 .. MaxLen}

Init ==
    /\ \E elems \in ArrayLiterals, x \in Val, y \in Val :
          heap = Setup(elems, Num(x), Num(y))
    /\ pre = heap
    /\ trace = <<>>

---------------------------------------------------------------------------
(* Arguments a caller passes.  A missing required argument (undefined) is  *)
(* tried with the other arguments at one valid choice; every other         *)
(* combination of the sets below is tried.                                 *)

Mats == {IDENTITY, UserMatrix}

ResArgs == {0, IDENTITY, UserMatrix, Scratch}

CartRes == {0, UserVector, ScratchVector}

ValuesArgs == {0, NotAnArray} \cup (1 .. Len(heap.arrays))

IndexArgs == {Undefined, Str, NaN, Half, Num(0 - 1), Num(0), Num(1), Num(2)}

ScalarArgs == {Undefined, Str, NaN, Num(0 - 1)} \cup {Num(v) : v \in Val}

\* A tuple of four distinct components.
SampleComps == <<Num(1), Num(2), Num(3), Num(4)>>

UnaryArgs ==
    {<<m, r>> : m \in Mats, r \in ResArgs} \cup {<<0, 0>>, <<0, Scratch>>}

GetArgs ==
    {<<m, i, r>> : m \in Mats, i \in IndexArgs, r \in CartRes}
        \cup {<<0, Num(0), 0>>, <<0, Num(0), ScratchVector>>}

SetArgs ==
    {<<m, i, UserVector, r>> : m \in Mats, i \in IndexArgs, r \in ResArgs}
        \cup {<<0, Num(0), UserVector, 0>>, <<UserMatrix, Num(0), 0, 0>>,
              <<0, Num(0), UserVector, Scratch>>,
              <<UserMatrix, Num(0), 0, Scratch>>}

MultiplyArgs ==
    {<<l, r, res>> : l \in Mats, r \in Mats, res \in ResArgs}
        \cup {<<0, UserMatrix, 0>>, <<UserMatrix, 0, 0>>,
              <<0, UserMatrix, Scratch>>, <<UserMatrix, 0, Scratch>>}

VectorArgs ==
    {<<m, UserVector, r>> : m \in Mats, r \in CartRes}
        \cup {<<0, UserVector, 0>>, <<UserMatrix, 0, 0>>,
              <<0, UserVector, ScratchVector>>,
              <<UserMatrix, 0, ScratchVector>>}

ScalarCallArgs ==
    {<<m, k, r>> : m \in Mats, k \in ScalarArgs, r \in ResArgs}
        \cup {<<0, Num(1), 0>>, <<0, Num(1), Scratch>>}

---------------------------------------------------------------------------
(* One action per operation.                                               *)

Ready == Len(trace) = 0

New ==
    /\ Ready
    /\ \E values \in ValuesArgs :
          Step([NoArgs EXCEPT !.op = "Matrix2", !.values = values])

FromComponentsOf(tuples, results) ==
    \E comps \in tuples, result \in results :
       Step([NoArgs EXCEPT !.op = "fromComponents", !.comps = comps,
                           !.result = result])

FromComponents ==
    /\ Ready
    /\ FromComponentsOf({SampleComps}, ResArgs)

FromRowMajorArray ==
    /\ Ready
    /\ \E values \in ValuesArgs, result \in ResArgs :
          Step([NoArgs EXCEPT !.op = "fromRowMajorArray", !.values = values,
                              !.result = result])

Clone ==
    /\ Ready
    /\ \E a \in UnaryArgs :
          Step([NoArgs EXCEPT !.op = "clone", !.matrix = a[1],
                              !.result = a[2]])

GetOf(op, args) ==
    \E a \in args :
       Step([NoArgs EXCEPT !.op = op, !.matrix = a[1], !.index = a[2],
                           !.result = a[3]])

GetColumn ==
    /\ Ready
    /\ GetOf("getColumn", GetArgs)

SetColumn ==
    /\ Ready
    /\ \E a \in SetArgs :
          Step([NoArgs EXCEPT !.op = "setColumn", !.matrix = a[1],
                              !.index = a[2], !.cartesian = a[3],
                              !.result = a[4]])

GetRow ==
    /\ Ready
    /\ GetOf("getRow", GetArgs)

SetRow ==
    /\ Ready
    /\ \E a \in SetArgs :
          Step([NoArgs EXCEPT !.op = "setRow", !.matrix = a[1],
                              !.index = a[2], !.cartesian = a[3],
                              !.result = a[4]])

MultiplyOf(args) ==
    \E a \in args :
       Step([NoArgs EXCEPT !.op = "multiply", !.matrix = a[1],
                           !.right = a[2], !.result = a[3]])

Multiply ==
    /\ Ready
    /\ MultiplyOf(MultiplyArgs)

MultiplyByVectorOf(args) ==
    \E a \in args :
       Step([NoArgs EXCEPT !.op = "multiplyByVector", !.matrix = a[1],
                           !.cartesian = a[2], !.result = a[3]])

MultiplyByVector ==
    /\ Ready
    /\ MultiplyByVectorOf(VectorArgs)

MultiplyByScalar ==
    /\ Ready
    /\ \E a \in ScalarCallArgs :
          Step([NoArgs EXCEPT !.op = "multiplyByScalar", !.matrix = a[1],
                              !.scalar = a[2], !.result = a[3]])

Negate ==
    /\ Ready
    /\ \E a \in UnaryArgs :
          Step([NoArgs EXCEPT !.op = "negate", !.matrix = a[1],
                              !.result = a[2]])

Transpose ==
    /\ Ready
    /\ \E a \in UnaryArgs :
          Step([NoArgs EXCEPT !.op = "transpose", !.matrix = a[1],
                              !.result = a[2]])

Equals ==
    /\ Ready
    /\ \E left \in ResArgs, right \in ResArgs :
          Step([NoArgs EXCEPT !.op = "equals", !.matrix = left,
                              !.right = right])

Next ==
    \/ New
    \/ FromComponents
    \/ FromRowMajorArray
    \/ Clone
    \/ GetColumn
    \/ SetColumn
    \/ GetRow
    \/ SetRow
    \/ Multiply
    \/ MultiplyByVector
    \/ MultiplyByScalar
    \/ Negate
    \/ Transpose
    \/ Equals

Spec == Init /\ [][Next]_vars

---------------------------------------------------------------------------
(* What the properties observe.                                            *)

\* The latest call, with its completion.
Last == trace[Len(trace)]

Called(op) == Len(trace) > 0 /\ Last.c.op = op

\* The four components of matrix m and the two coordinates of vector c.
Components(h, m) ==
    <<Read(h, h.mats[m].values, 0), Read(h, h.mats[m].values, 1),
      Read(h, h.mats[m].values, 2), Read(h, h.mats[m].values, 3)>>

Coords(h, c) == <<h.carts[c].x, h.carts[c].y>>

StorageLen(h, m) == Len(h.arrays[h.mats[m].values].elems)

VectorOps == {"getColumn", "getRow", "multiplyByVector"}

MatrixOps ==
    {"fromComponents", "fromRowMajorArray", "clone", "setColumn", "setRow",
     "multiply", "multiplyByScalar", "negate", "transpose"}

\* The value behind the reference that operation op returned.
Value(h, op, ref) ==
    IF op \in VectorOps THEN Coords(h, ref) ELSE Components(h, ref)

\* The same call made from the same heap with `result` omitted.
Allocating == Invoke(pre, [Last.c EXCEPT !.result = 0])

\* The arrays the call's inputs are stored in.
InputArrays(h, c) ==
    {h.mats[m].values : m \in {c.matrix, c.right} \ {0}}
        \cup ({c.values} \ {0, NotAnArray})

\* result is an object of its own: no input, and backed by no input's array.
DistinctResult(h, c) ==
    /\ c.result # 0
    /\ IF c.op \in VectorOps
       THEN c.result # c.cartesian
       ELSE /\ c.result \notin {c.matrix, c.right}
            /\ h.mats[c.result].values \notin InputArrays(h, c)

\* result is one of the call's own inputs.
AliasedResult(c) ==
    /\ c.result # 0
    /\ IF c.op \in VectorOps
       THEN c.result = c.cartesian
       ELSE c.result \in {c.matrix, c.right}

AllFour(h) == \A m \in 1 .. Len(h.mats) : StorageLen(h, m) = 4

---------------------------------------------------------------------------
(* Properties of a single call (specification Spec).                       *)

\* C1: after any operations, including those given Matrix2.IDENTITY as
\* result, the components of Matrix2.IDENTITY are still [1, 0, 0, 1].
IdentityNeverMutated ==
    Components(heap, IDENTITY) = <<Num(1), Num(0), Num(0), Num(1)>>

AliasingSelfTolerated ==
    (/\ Len(trace) > 0
     /\ Last.c.op \in {"multiply", "transpose", "negate", "multiplyByScalar",
                       "clone", "setColumn", "setRow", "multiplyByVector"}
     /\ AliasedResult(Last.c)
     /\ ~Last.threw)
        => /\ Last.ret = Last.c.result
           /\ Value(heap, Last.c.op, Last.ret)
                  = Value(Allocating.h, Last.c.op, Allocating.ret)

SquaredInPlace ==
    /\ Called("multiply")
    /\ Last.c.matrix = UserMatrix
    /\ Last.c.right = UserMatrix
    /\ Last.c.result = UserMatrix
    /\ Components(heap, UserMatrix) # Components(pre, UserMatrix)
    /\ Read(pre, pre.mats[UserMatrix].values, 0) # Read(heap, heap.mats[UserMatrix].values, 0)

\* The entry at row r, column c is values[Slot(r, c)]: what getRow and
\* getColumn return, and where setRow and setColumn write, for a valid index.
AddressedBy(Slot(_, _)) ==
    (Len(trace) > 0 /\ ~Last.threw /\ Last.c.index \in {Num(0), Num(1)}) =>
        LET i == Last.c.index.n
            src == pre.mats[Last.c.matrix].values
            v == Coords(pre, Last.c.cartesian)
            dst == heap.mats[Last.ret].values
        IN /\ Last.c.op = "getRow" =>
                \A c \in {0, 1} :
                   Coords(heap, Last.ret)[c + 1] = Read(pre, src, Slot(i, c))
           /\ Last.c.op = "getColumn" =>
                \A r \in {0, 1} :
                   Coords(heap, Last.ret)[r + 1] = Read(pre, src, Slot(r, i))
           /\ Last.c.op = "setRow" =>
                \A r \in {0, 1}, c \in {0, 1} :
                   Read(heap, dst, Slot(r, c))
                       = IF r = i THEN v[c + 1] ELSE Read(pre, src, Slot(r, c))
           /\ Last.c.op = "setColumn" =>
                \A r \in {0, 1}, c \in {0, 1} :
                   Read(heap, dst, Slot(r, c))
                       = IF c = i THEN v[r + 1] ELSE Read(pre, src, Slot(r, c))

InvalidIndexRaises ==
    (/\ Len(trace) > 0
     /\ Last.c.op \in {"getColumn", "setColumn", "getRow", "setRow"}
     /\ Last.c.index \notin {Num(0), Num(1)})
        => Last.threw /\ heap = pre

\* C7 as stated: the constructor and fromRowMajorArray raise whenever
\* values is provided and is not an array of exactly 4 elements, creating
\* and modifying nothing.
NonFourElementValuesRaise ==
    (/\ Len(trace) > 0
     /\ Last.c.op \in {"Matrix2", "fromRowMajorArray"}
     /\ Last.c.values # 0
     /\ \/ Last.c.values = NotAnArray
        \/ Len(pre.arrays[Last.c.values].elems) # 4)
        => Last.threw /\ heap = pre

\* C7, amended: they raise exactly when values is not an array (for the
\* constructor, when it is provided and not an array), creating and
\* modifying nothing then; an array of any length is accepted.
NonArrayValuesRaise ==
    (Len(trace) > 0 /\ Last.c.op \in {"Matrix2", "fromRowMajorArray"}) =>
        /\ Last.threw <=>
              \/ Last.c.values = NotAnArray
              \/ Last.c.op = "fromRowMajorArray" /\ Last.c.values = 0
        /\ Last.threw => heap = pre

ShortArrayAccepted ==
    /\ Called("fromRowMajorArray")
    /\ Last.c.values \notin {0, NotAnArray}
    /\ Len(pre.arrays[Last.c.values].elems) = 3
    /\ ~Last.threw
    /\ Last.ret > 0

\* C8 as stated: after operations that did not raise, the storage of
\* every Matrix2 instance has exactly 4 elements and was not resized.
StorageAlwaysFour ==
    (Len(trace) > 0 /\ ~Last.threw) =>
        /\ AllFour(heap)
        /\ \A a \in 1 .. Len(pre.arrays) :
              Len(heap.arrays[a].elems) = Len(pre.arrays[a].elems)

\* C8, amended: an operation that starts with every instance's storage at
\* exactly 4 elements leaves every instance's storage, a new instance's
\* included, at exactly 4 elements and resizes no array.
FourElementStoragePreserved ==
    (Len(trace) > 0 /\ AllFour(pre)) =>
        /\ AllFour(heap)
        /\ \A a \in 1 .. Len(pre.arrays) :
              Len(heap.arrays[a].elems) = Len(pre.arrays[a].elems)

FourElementInstanceCreated ==
    /\ Called("clone")
    /\ AllFour(pre)
    /\ Len(heap.mats) = Len(pre.mats) + 1
    /\ Last.ret = Len(heap.mats)
    /\ StorageLen(heap, Last.ret) = 4

\* C9: equals never raises; it is true for the same reference (both absent
\* included), false when exactly one operand is absent, and otherwise true
\* exactly when the four components are pairwise equal.
EqualsIsTotal ==
    Called("equals") =>
        /\ ~Last.threw
        /\ Last.bool =
              IF Last.c.matrix = Last.c.right THEN TRUE
              ELSE IF Last.c.matrix = 0 \/ Last.c.right = 0 THEN FALSE
              ELSE Components(pre, Last.c.matrix) = Components(pre, Last.c.right)

EqualDistinctOperands ==
    /\ Called("equals")
    /\ Last.c.matrix = UserMatrix
    /\ Last.c.right = IDENTITY
    /\ Last.bool

---------------------------------------------------------------------------
(* Building a matrix and then reading it back (specification SpecAccess):  *)
(* M = fromComponents(a, b, c, d [, result]), then getRow or getColumn on  *)
(* M.                                                                      *)

InitAccess ==
    /\ heap = Setup(<<Num(0), Num(0), Num(0), Num(0)>>, Num(0), Num(0))
    /\ pre = heap
    /\ trace = <<>>

AccessBuild ==
    /\ Len(trace) = 0
    /\ FromComponentsOf(Tuples4, ResArgs)

AccessArgs ==
    {<<trace[1].ret, i, r>> : i \in IndexArgs, r \in CartRes}

AccessGetRow ==
    /\ Len(trace) = 1
    /\ GetOf("getRow", AccessArgs)

AccessGetColumn ==
    /\ Len(trace) = 1
    /\ GetOf("getColumn", AccessArgs)

NextAccess ==
    \/ AccessBuild
    \/ AccessGetRow
    \/ AccessGetColumn

SpecAccess == InitAccess /\ [][NextAccess]_vars

\* C4: with M = fromComponents(a, b, c, d): getRow(M, 0) = (a, b),
\* getRow(M, 1) = (c, d), getColumn(M, 0) = (a, c), getColumn(M, 1) = (b, d).
RowsAndColumnsOfComponents ==
    (Len(trace) = 2 /\ ~Last.threw) =>
        LET a == trace[1].c.comps[1]
            b == trace[1].c.comps[2]
            c == trace[1].c.comps[3]
            d == trace[1].c.comps[4]
            got == Coords(heap, Last.ret)
        IN /\ (Last.c.op = "getRow" /\ Last.c.index = Num(0)) => got = <<a, b>>
           /\ (Last.c.op = "getRow" /\ Last.c.index = Num(1)) => got = <<c, d>>
           /\ (Last.c.op = "getColumn" /\ Last.c.index = Num(0)) => got = <<a, c>>
           /\ (Last.c.op = "getColumn" /\ Last.c.index = Num(1)) => got = <<b, d>>

ColumnOneOfBuiltMatrix ==
    /\ Len(trace) = 2
    /\ trace[1].c.comps = <<Num(0), Num(1), Num(0), Num(0)>>
    /\ trace[1].c.result = 0
    /\ Last.c.op = "getColumn"
    /\ Last.c.index = Num(1)
    /\ Last.c.matrix = trace[1].ret
    /\ ~Last.threw
    /\ Coords(heap, Last.ret) = <<Num(1), Num(0)>>

---------------------------------------------------------------------------
(* Composition (specification SpecCompose): for matrices L and R and a     *)
(* vector v the caller computes multiplyByVector(multiply(L, R), v) and    *)
(* multiplyByVector(L, multiplyByVector(R, v)), every call allocating.     *)

InitCompose ==
    /\ \E l \in Tuples4, r \in Tuples4, x \in Val, y \in Val :
          heap = SetupPair(l, r, Num(x), Num(y))
    /\ pre = heap
    /\ trace = <<>>

\* p = multiply(L, R)
ComposeProduct ==
    /\ Len(trace) = 0
    /\ MultiplyOf({<<UserMatrix, Scratch, 0>>})

\* multiplyByVector(p, v)
ComposeApplyProduct ==
    /\ Len(trace) = 1
    /\ MultiplyByVectorOf({<<trace[1].ret, UserVector, 0>>})

\* w = multiplyByVector(R, v)
ComposeApplyRight ==
    /\ Len(trace) = 2
    /\ MultiplyByVectorOf({<<Scratch, UserVector, 0>>})

\* multiplyByVector(L, w)
ComposeApplyLeft ==
    /\ Len(trace) = 3
    /\ MultiplyByVectorOf({<<UserMatrix, trace[3].ret, 0>>})

NextCompose ==
    \/ ComposeProduct
    \/ ComposeApplyProduct
    \/ ComposeApplyRight
    \/ ComposeApplyLeft

SpecCompose == InitCompose /\ [][NextCompose]_vars

\* C10: multiplyByVector(multiply(L, R), v) equals
\* multiplyByVector(L, multiplyByVector(R, v)).
ProductComposesLinearMaps ==
    Len(trace) = 4 =>
        /\ \A i \in 1 .. 4 : ~trace[i].threw
        /\ Coords(heap, trace[2].ret) = Coords(heap, trace[4].ret)

ComposedBothWays ==
    /\ Len(trace) = 4
    /\ Components(heap, UserMatrix) = <<Num(0), Num(1), Num(0), Num(0)>>
    /\ Components(heap, Scratch) = <<Num(0), Num(0), Num(1), Num(1)>>
    /\ Coords(heap, UserVector) = <<Num(1), Num(1)>>
    /\ Coords(heap, trace[4].ret) = <<Num(2), Num(0)>>
    /\ Coords(heap, trace[2].ret) = <<Num(2), Num(0)>>

---------------------------------------------------------------------------
(* Writing into what a call returned (specification SpecFrame): one call   *)
(* of any operation, and when that call allocated its return value, an     *)
(* in-place write into that value.                                         *)

\* The first call returned a new object.
Allocated(ops) ==
    /\ Len(trace) = 1
    /\ trace[1].c.op \in ops
    /\ trace[1].c.result = 0
    /\ ~trace[1].threw

\* fromComponents(1, 2, 3, 4, p) on the matrix p that the first call
\* allocated.
FrameWriteMatrix ==
    /\ Allocated(MatrixOps)
    /\ FromComponentsOf({SampleComps}, {trace[1].ret})

\* getRow(IDENTITY, 0, w) on the vector w that the first call allocated.
FrameWriteVector ==
    /\ Allocated(VectorOps)
    /\ GetOf("getRow", {<<IDENTITY, Num(0), trace[1].ret>>})

NextFrame ==
    \/ Next
    \/ FrameWriteMatrix
    \/ FrameWriteVector

SpecFrame == Init /\ [][NextFrame]_vars

\* The matrices, the vector and the array that call c takes as inputs.
InputMatrices(c) == {c.matrix, c.right} \ {0}

InputVectors(c) == {c.cartesian} \ {0}

\* Inputs hold in h2 what they held in h1.
InputsKept(h1, h2, c) ==
    /\ \A m \in InputMatrices(c) :
          /\ h2.mats[m] = h1.mats[m]
          /\ h2.arrays[h1.mats[m].values] = h1.arrays[h1.mats[m].values]
    /\ \A v \in InputVectors(c) : h2.carts[v] = h1.carts[v]
    /\ \A a \in InputArrays(h1, c) : h2.arrays[a] = h1.arrays[a]

\* Everything of h1 but the object result (and the array behind it, for a
\* matrix) is the same in h2.
OnlyResultChanged(h1, h2, c) ==
    /\ \A m \in 1 .. Len(h1.mats) : h2.mats[m] = h1.mats[m]
    /\ \A a \in 1 .. Len(h1.arrays) :
          (c.op \in VectorOps \/ c.result = 0 \/ a # h1.mats[c.result].values)
              => h2.arrays[a] = h1.arrays[a]
    /\ \A v \in 1 .. Len(h1.carts) :
          (c.op \in MatrixOps \/ v # c.result) => h2.carts[v] = h1.carts[v]

\* The object the call returned did not exist in h, nor did its array.
FreshReturn(h, h2, op, ret) ==
    IF op \in VectorOps
    THEN ret > Len(h.carts)
    ELSE ret > Len(h.mats) /\ h2.mats[ret].values > Len(h.arrays)

\* C11: an operation called with result omitted, or with a result that is
\* an object of its own, changes nothing but that result: its input
\* matrices, vector and array are as before; what it allocates shares no
\* storage with anything that existed, so that a later in-place write into
\* it leaves the first call's inputs as they were.
OnlyResultIsWritten ==
    /\ (/\ Len(trace) = 1
        /\ Last.c.op \in MatrixOps \cup VectorOps \cup {"equals"}
        /\ Last.c.result = 0 \/ DistinctResult(pre, Last.c))
           => /\ InputsKept(pre, heap, Last.c)
              /\ OnlyResultChanged(pre, heap, Last.c)
              /\ (Last.c.result = 0 /\ ~Last.threw /\ Last.c.op # "equals")
                    => FreshReturn(pre, heap, Last.c.op, Last.ret)
    /\ Len(trace) = 2
           => /\ ~Last.threw
              /\ Last.ret = trace[1].ret
              /\ InputsKept(pre, heap, trace[1].c)
              /\ OnlyResultChanged(pre, heap, Last.c)

CloneWrittenInputKept ==
    /\ Len(trace) = 2
    /\ trace[1].c.op = "clone"
    /\ trace[1].c.matrix = UserMatrix
    /\ Components(heap, trace[1].ret) = SampleComps
    /\ Components(pre, trace[1].ret) = Components(pre, UserMatrix)
    /\ Components(heap, UserMatrix) = Components(pre, UserMatrix)
    /\ Components(pre, UserMatrix) # SampleComps

---------------------------------------------------------------------------
(* Transposing twice (specification SpecTranspose): the caller holds M and *)
(* a copy of it that no call touches, computes T = transpose(M [, result]) *)
(* and then transpose(T [, result]).                                       *)

InitTranspose ==
    /\ \E elems \in ArrayLiterals :
          heap = SetupPair(elems, elems, Num(0), Num(0))
    /\ pre = heap
    /\ trace = <<>>

TransposeOf(args) ==
    \E a \in args :
       Step([NoArgs EXCEPT !.op = "transpose", !.matrix = a[1],
                           !.result = a[2]])

\* T = transpose(M), transpose(M, M) or transpose(M, IDENTITY)
TransposeOnce ==
    /\ Len(trace) = 0
    /\ TransposeOf({<<UserMatrix, r>> : r \in {0, UserMatrix, IDENTITY}})

\* transpose(T), transpose(T, T), transpose(T, M) or transpose(T, IDENTITY)
TransposeAgain ==
    /\ Len(trace) = 1
    /\ TransposeOf({<<trace[1].ret, r>> :
                       r \in {0, trace[1].ret, UserMatrix, IDENTITY}})

NextTranspose ==
    \/ TransposeOnce
    \/ TransposeAgain

SpecTranspose == InitTranspose /\ [][NextTranspose]_vars

\* C12: transpose(transpose(M)) has the four components of M, whether
\* each of the two calls allocates or writes into result, result = M
\* included.
TransposeIsInvolution ==
    Len(trace) = 2 =>
        /\ ~trace[1].threw
        /\ ~Last.threw
        /\ Components(heap, Last.ret) = Components(heap, Scratch)

TransposedTwiceInPlace ==
    /\ Len(trace) = 2
    /\ trace[1].c.result = UserMatrix
    /\ Last.c.result = UserMatrix
    /\ Last.ret = UserMatrix
    /\ Components(pre, UserMatrix) = <<Num(0), Num(0), Num(1), Num(0)>>
    /\ Components(heap, UserMatrix) = <<Num(0), Num(1), Num(0), Num(0)>>
    /\ Components(heap, Scratch) = <<Num(0), Num(1), Num(0), Num(0)>>

---------------------------------------------------------------------------
(* Row-major input.                                                        *)

\* C13 (specification Spec): fromRowMajorArray(values, result), called
\* with the very array that backs result, stores
\* [values[0], values[2], values[1], values[3]], taken from values as it was
\* before the call, into result.
RowMajorAliasedMatchesAllocating ==
    (/\ Called("fromRowMajorArray")
     /\ ~Last.threw
     /\ Last.c.result # 0
     /\ pre.mats[Last.c.result].values = Last.c.values)
        => /\ Last.ret = Last.c.result
           /\ Components(heap, Last.ret)
                  = <<Read(pre, Last.c.values, 0), Read(pre, Last.c.values, 2),
                      Read(pre, Last.c.values, 1), Read(pre, Last.c.values, 3)>>

(* Reading back a row-major input (specification SpecRowMajor): the       *)
(* caller holds a four-element array v, builds                             *)
(* M = fromRowMajorArray(v [, result]) with a result other than the matrix *)
(* over v, and then calls getRow or getColumn on M.                        *)

InitRowMajor ==
    /\ \E v \in Tuples4 : heap = Setup(v, Num(0), Num(0))
    /\ pre = heap
    /\ trace = <<>>

\* The array v.
RowMajorInput == heap.mats[UserMatrix].values

RowMajorBuild ==
    /\ Len(trace) = 0
    /\ \E result \in {0, Scratch, IDENTITY} :
          Step([NoArgs EXCEPT !.op = "fromRowMajorArray",
                              !.values = RowMajorInput, !.result = result])

NextRowMajor ==
    \/ RowMajorBuild
    \/ AccessGetRow
    \/ AccessGetColumn

SpecRowMajor == InitRowMajor /\ [][NextRowMajor]_vars

\* C14: with M = fromRowMajorArray(v) for a four-element v:
\* getRow(M, 0) = (v[0], v[1]), getRow(M, 1) = (v[2], v[3]),
\* getColumn(M, 0) = (v[0], v[2]), getColumn(M, 1) = (v[1], v[3]).
RowsAndColumnsOfRowMajor ==
    (Len(trace) = 2 /\ Last.c.index \in {Num(0), Num(1)}) =>
        LET v == heap.arrays[trace[1].c.values].elems
            got == Coords(heap, Last.ret)
        IN /\ ~Last.threw
           /\ (Last.c.op = "getRow" /\ Last.c.index = Num(0)) => got = <<v[1], v[2]>>
           /\ (Last.c.op = "getRow" /\ Last.c.index = Num(1)) => got = <<v[3], v[4]>>
           /\ (Last.c.op = "getColumn" /\ Last.c.index = Num(0)) => got = <<v[1], v[3]>>
           /\ (Last.c.op = "getColumn" /\ Last.c.index = Num(1)) => got = <<v[2], v[4]>>

=============================================================================
